---- MODULE Spec2Model ----
(***************************************************************************)
(* Model of MimikaStudio's audiobook pipeline (backend/tts/audiobook.py),  *)
(* its job registry and HTTP handlers (backend/main.py) and the two text   *)
(* chunkers (audiobook.chunk_text_for_kokoro, text_chunking.               *)
(* smart_chunk_text).                                                      *)
(*                                                                         *)
(* The specifications that share the module:                               *)
(*   Spec         - one audiobook job: create_audiobook_job, the worker    *)
(*                  thread _generate_audiobook at statement granularity,   *)
(*                  and the API-side operations that interleave with it.   *)
(*   SpecChunk    - the chunkers as pure functions over bounded texts.     *)
(*   SpecMerge    - merge_audio_chunks over bounded lists of buffers.      *)
(*   SpecGenerate - POST /api/audiobook/generate.                          *)
(*   SpecCancel   - cancel_job step by step against the worker.            *)
(*   SpecRegistry - several jobs in the registry and cleanup_old_jobs.     *)
(*   SpecEngine   - several worker threads and the engine singleton.       *)
(*                                                                         *)
(* Conventions.  Audio time is counted in samples (seconds * sample_rate), *)
(* so every time the code computes is an integer here.  A text chunk is    *)
(* the sequence of its word lengths (SpecChunk keeps the characters).  A   *)
(* path is named by its extension ("wav" is outputs/audiobook-<id>.wav);   *)
(* "none" is Python's None for paths and messages, 0 is None for           *)
(* completed_at (the clock starts at 1).                                   *)
(***************************************************************************)
EXTENDS Integers, Sequences, FiniteSets, TLC

VARIABLES
    jobs,     \* _jobs: the ids registered in the process-wide registry
    job,      \* the AudiobookJob object of job id 1 (the worker keeps a reference)
    pc,       \* position of the worker thread in _generate_audiobook
    loc,      \* local variables of _generate_audiobook
    files,    \* files of outputs/ named audiobook-<id>.<ext>, by extension
    now,      \* time.time()
    hist,     \* history: what happened so far (not program state)
    text,     \* SpecChunk: the input text, a sequence of characters
    max_chars,\* SpecChunk: the max_chars argument
    result,   \* SpecChunk: [fn, chunks] once a chunker has been applied
    buffers,  \* SpecMerge: the chunks argument of merge_audio_chunks
    rate,     \* SpecMerge: the sample_rate argument
    crossfade_ms, \* SpecMerge: the crossfade_ms argument
    merged,   \* SpecMerge: the array merge_audio_chunks returned
    request,  \* SpecGenerate, SpecCancel: the HTTP request being served
    response, \* SpecGenerate, SpecCancel: the HTTP response, once returned
    api_pc,   \* SpecCancel: position of the request handler
    records,  \* SpecRegistry: the AudiobookJob objects by job id
    engine    \* SpecEngine: the Kokoro engine singleton and the worker threads

vars == <<jobs, job, pc, loc, files, now, hist, text, max_chars, result,
          buffers, rate, crossfade_ms, merged, request, response, api_pc,
          records, engine>>

jobVars == <<jobs, job, pc, loc, files, now, hist>>
chunkVars == <<text, max_chars, result>>
mergeVars == <<buffers, rate, crossfade_ms, merged>>
apiVars == <<request, response, api_pc>>

----------------------------------------------------------------------------
(* Bounds of the model *)

MaxChunks == 2      \* most chunks of one job
MaxChapters == 2    \* most chapters of one job
MaxTime == 2        \* last value of the clock
MaxTextLen == 6     \* SpecChunk: longest input text
MaxMaxChars == 4    \* SpecChunk: largest max_chars

MaxJobs == 2        \* SpecRegistry: most jobs created
MaxWorkers == 2     \* SpecEngine: most worker threads

(* Program constants *)

sample_rate == 24000        \* audiobook.py:714
max_subtitle_len == 200     \* audiobook.py:764
default_words_per_sec == 10 \* audiobook.py:771
default_max_chars == 1500   \* audiobook.py:235

----------------------------------------------------------------------------
(* Helpers on sequences *)

RECURSIVE SumSeq(_)
SumSeq(s) == IF s = <<>> THEN 0 ELSE Head(s) + SumSeq(Tail(s))

Prefix(s, n) == SubSeq(s, 1, IF n < Len(s) THEN n ELSE Len(s))

RECURSIVE SeqsUpTo(_, _)
SeqsUpTo(S, n) ==
    IF n = 0 THEN {<<>>}
    ELSE LET shorter == SeqsUpTo(S, n - 1)
         IN shorter \cup {Append(s, x) : s \in {t \in shorter : Len(t) = n - 1}, x \in S}

----------------------------------------------------------------------------
(* Inputs of a job *)

\* A chunk is the sequence of its word lengths; len(chunk) counts the
\* single spaces between the words.
ChunkChars(words) == IF words = <<>> THEN 0 ELSE SumSeq(words) + Len(words) - 1

ShortChunk == <<1>>              \* a one-character chunk
LongChunk == <<1496, 1, 1>>      \* 1500 characters, three words
EmptyChunk == <<>>               \* '' : what blank text is chunked into

\* The chunk lists create_audiobook_job can hand to the worker: those
\* chunk_text_for_kokoro(text) returns with its default max_chars.  Each
\* chunk here is one sentence of at most max_chars characters, and line
\* 281 closes a chunk only when the next sentence does not fit, so two
\* neighbours never fit together.  The function never returns []: blank
\* text gives [''].
ChunkLists ==
    {s \in SeqsUpTo({ShortChunk, LongChunk}, MaxChunks) \ {<<>>} :
        \A k \in 1..(Len(s) - 1) :
            (ChunkChars(s[k]) + 1) + ChunkChars(s[k + 1]) + 1 > default_max_chars}
    \cup {<<EmptyChunk>>}

\* A chapter is len(chapter.text)
ChapterLists == SeqsUpTo({1, 1501}, MaxChapters)

OutputFormats == {"wav", "mp3", "m4b"}
SubtitleFormats == {"none", "srt", "vtt"}

\* The requests a job is created from.  The chapter bookkeeping of the
\* worker (chapter_timestamps, chapter_start_time, current_chapter) and
\* its subtitle bookkeeping (job.subtitles, subtitle_index) read and write
\* disjoint variables, and the chapter pairs are used by the m4b
\* conversion alone, so the chapter lists are combined with the m4b
\* format and every format pair with the empty chapter list.
Requests ==
    [chunks : ChunkLists, output_format : OutputFormats,
     subtitle_format : SubtitleFormats, chapters : {<<>>}]
    \cup
    [chunks : ChunkLists, output_format : {"m4b"},
     subtitle_format : {"none"}, chapters : ChapterLists]

\* What the synthesizer can do with one chunk: raise, yield no segment
\* (-1), or yield segments whose concatenation has this many samples.
NoSegments == 0 - 1
AudioResults == {NoSegments, 0, sample_rate}

STARTED == "started"
PROCESSING == "processing"
COMPLETED == "completed"
FAILED == "failed"
CANCELLED == "cancelled"
Terminal == {COMPLETED, FAILED, CANCELLED}

----------------------------------------------------------------------------
(* AudiobookJob *)

NoJob ==
    [status |-> "none", total_chunks |-> 0, current_chunk |-> 0,
     output_format |-> "wav", subtitle_format |-> "none",
     error_message |-> "none", audio_path |-> "none", subtitle_path |-> "none",
     duration_seconds |-> 0, completed_at |-> 0, cancel_requested |-> FALSE,
     total_chars |-> 0, processed_chars |-> 0,
     chapters |-> <<>>, current_chapter |-> 0, subtitles |-> <<>>]

NoLocals ==
    [chunks |-> <<>>, i |-> 0, all_audio |-> <<>>, current_time |-> 0,
     subtitle_index |-> 1, chapter_timestamps |-> <<>>,
     chars_processed_total |-> 0, current_chapter_idx |-> 0,
     chapter_start_time |-> 0, chunk_start_time |-> 0,
     chunk_audio |-> NoSegments, output_file |-> "none", exc |-> "none"]

NoHist ==
    [synth_calls |-> <<>>, raised_at |-> 0, cancel_at |-> "none",
     transcode_faults |-> {}, synth_after_cancel |-> 0,
     call_status |-> "none", seen_status |-> "none"]

\* SpecRegistry: a job id not yet handed out, and the registry's objects
PoolIds == 1..MaxJobs
NoRecord ==
    [status |-> "none", completed_at |-> 0, cancel_requested |-> FALSE, pc |-> "idle"]
NoRecords == [id \in PoolIds |-> NoRecord]

\* SpecEngine: nothing constructed, no thread started.  _engine and
\* pipeline hold 0 for None, else the number of the object.
Workers == 1..MaxWorkers
NoEngine ==
    [instance |-> 0, constructed |-> 0,
     pipeline |-> [e \in Workers |-> 0], loaded |-> 0,
     pc |-> [w \in Workers |-> "idle"],
     ref |-> [w \in Workers |-> 0]]

\* Python round(x, 1) of a ratio num/den given in percent, in tenths of a
\* percent: nearest, ties to even.
RoundTenths(num, den) ==
    LET q == (num * 1000) \div den
        r == (num * 1000) % den
    IN IF 2 * r > den THEN q + 1
       ELSE IF 2 * r < den THEN q
       ELSE IF q % 2 = 0 THEN q ELSE q + 1

\* AudiobookJob.percent, in tenths of a percent
percent(j) ==
    IF j.total_chars > 0 THEN RoundTenths(j.processed_chars, j.total_chars)
    ELSE IF j.total_chunks = 0 THEN 0
    ELSE RoundTenths(j.current_chunk, j.total_chunks)

\* update_progress assigning the count instead of adding it
update_progress_absolute(j, chars_processed) ==
    [j EXCEPT !.processed_chars = chars_processed]

\* update_progress with the chunk counted twice
update_progress_twice(j, chars_processed) ==
    [j EXCEPT !.processed_chars = j.processed_chars + 2 * chars_processed]

\* AudiobookJob.update_progress (chars_per_sec and eta are derived floats
\* that no modelled operation reads)
update_progress(j, chars_processed) ==
    [j EXCEPT !.processed_chars = j.processed_chars + chars_processed]

----------------------------------------------------------------------------
(* create_audiobook_job *)

create_audiobook_job ==
    /\ pc = "idle"
    /\ \E req \in Requests :
        /\ job' = [NoJob EXCEPT
                     !.status = STARTED,
                     !.total_chunks = Len(req.chunks),
                     !.total_chars = SumSeq([k \in 1..Len(req.chunks) |->
                                                ChunkChars(req.chunks[k])]),
                     !.output_format = req.output_format,
                     !.subtitle_format = req.subtitle_format,
                     !.chapters = req.chapters]
        /\ loc' = [NoLocals EXCEPT !.chunks = req.chunks]
    /\ jobs' = jobs \cup {1}
    /\ pc' = "get_engine"
    /\ UNCHANGED <<files, now, hist, chunkVars, mergeVars, records, engine, apiVars>>

----------------------------------------------------------------------------
(* _generate_audiobook: the worker thread *)

\* An exception raised inside the try block: control goes to the except
\* clause, which records str(e).
Raise(msg) ==
    /\ loc' = [loc EXCEPT !.exc = msg]
    /\ pc' = "except"

\* line 709: engine = get_kokoro_engine(), outside the try block.  The
\* first call constructs KokoroEngine, whose __init__ creates outputs/ and
\* may raise; an exception here leaves the thread with nothing caught.
W_GetEngine ==
    /\ pc = "get_engine"
    /\ \/ pc' = "mkdir"
       \/ pc' = "crashed"
    /\ UNCHANGED <<jobs, job, loc, files, now, hist, chunkVars, mergeVars, records, engine, apiVars>>

\* lines 710-711: outputs_dir.mkdir(parents=True, exist_ok=True), outside
\* the try block as well.
W_Mkdir ==
    /\ pc = "mkdir"
    /\ \/ pc' = "begin"
       \/ pc' = "crashed"
    /\ UNCHANGED <<jobs, job, loc, files, now, hist, chunkVars, mergeVars, records, engine, apiVars>>

\* lines 713-730: the locals, and job.status = PROCESSING as the first
\* statement of the try block.
W_Begin ==
    /\ pc = "begin"
    /\ job' = [job EXCEPT !.status = PROCESSING]
    /\ pc' = "loop"
    /\ UNCHANGED <<jobs, loc, files, now, hist, chunkVars, mergeVars, records, engine, apiVars>>

\* the head of the loop without the cancellation check of lines 733-737
W_LoopHead_NoCancelCheck ==
    /\ pc = "loop"
    /\ IF loc.i >= Len(loc.chunks)
       THEN /\ pc' = "final_check"
            /\ UNCHANGED <<job, loc>>
       ELSE /\ job' = [job EXCEPT !.current_chunk = loc.i + 1]
            /\ loc' = [loc EXCEPT !.chunk_start_time = loc.current_time]
            /\ pc' = "synth_call"
    /\ UNCHANGED <<jobs, files, now, hist, chunkVars, mergeVars, records, engine, apiVars>>

\* lines 732-741: the head of `for i, chunk in enumerate(chunks)`.
W_LoopHead ==
    /\ pc = "loop"
    /\ IF loc.i >= Len(loc.chunks)
       THEN /\ pc' = "final_check"
            /\ UNCHANGED <<job, loc>>
       ELSE IF job.cancel_requested
       THEN /\ job' = [job EXCEPT !.status = CANCELLED]
            /\ pc' = "cancel_stamp"
            /\ UNCHANGED loc
       ELSE /\ job' = [job EXCEPT !.current_chunk = loc.i + 1]
            /\ loc' = [loc EXCEPT !.chunk_start_time = loc.current_time]
            /\ pc' = "synth_call"
    /\ UNCHANGED <<jobs, files, now, hist, chunkVars, mergeVars, records, engine, apiVars>>

\* the cancellation branch without its `return`: the worker goes on to the
\* final write
W_CancelStamp_NoReturn ==
    /\ pc = "cancel_stamp"
    /\ job' = [job EXCEPT !.completed_at = now]
    /\ pc' = IF loc.all_audio # <<>> THEN "concat" ELSE "no_audio"
    /\ UNCHANGED <<jobs, loc, files, now, hist, chunkVars, mergeVars, records, engine, apiVars>>

\* lines 736-737 and 827-828: job.completed_at = time.time(); return
W_CancelStamp ==
    /\ pc = "cancel_stamp"
    /\ job' = [job EXCEPT !.completed_at = now]
    /\ pc' = "finally"
    /\ UNCHANGED <<jobs, loc, files, now, hist, chunkVars, mergeVars, records, engine, apiVars>>

\* lines 744-745: engine.load_model() raises ImportError when kokoro is
\* not installed (or whatever KPipeline's constructor raises); otherwise
\* generator = engine.pipeline(chunk, ...): the synthesis call for chunk
\* i+1 begins.
W_SynthCall ==
    /\ pc = "synth_call"
    /\ \/ /\ hist' = [hist EXCEPT
                        !.synth_calls = Append(hist.synth_calls, loc.i + 1),
                        !.synth_after_cancel =
                            IF job.cancel_requested THEN hist.synth_after_cancel + 1
                            ELSE hist.synth_after_cancel]
          /\ pc' = "synth_wait"
          /\ UNCHANGED loc
       \/ /\ Raise("load_model")
          /\ UNCHANGED hist
    /\ UNCHANGED <<jobs, job, files, now, chunkVars, mergeVars, records, engine, apiVars>>

\* lines 764-798: a chunk longer than max_subtitle_len is cut into several
\* entries.  words_per_sec is the fraction wps_num / wps_den (words per
\* sample); sub_duration = len(current_sub_text) / words_per_sec.
RECURSIVE SplitSubtitle(_, _, _, _, _, _, _, _, _)
SplitSubtitle(words, k, cur, cur_len, sub_start, index, wps_num, wps_den, end_time) ==
    IF k > Len(words)
    THEN IF cur # <<>>
         THEN << [index |-> index, start_time |-> sub_start,
                  end_time |-> end_time, text |-> cur] >>
         ELSE <<>>
    ELSE LET cur2 == Append(cur, words[k])
             len2 == cur_len + words[k] + 1
         IN IF len2 >= max_subtitle_len
            THEN LET sub_duration == (Len(cur2) * wps_den) \div wps_num
                 IN << [index |-> index, start_time |-> sub_start,
                        end_time |-> sub_start + sub_duration, text |-> cur2] >>
                    \o SplitSubtitle(words, k + 1, <<>>, 0, sub_start + sub_duration,
                                     index + 1, wps_num, wps_den, end_time)
            ELSE SplitSubtitle(words, k + 1, cur2, len2, sub_start, index,
                               wps_num, wps_den, end_time)

\* the entries timed from the start of the chunk, not of the audiobook
ChunkSubtitles_chunk_relative(words, chunk_start_time, current_time, chunk_duration, subtitle_index) ==
    IF ChunkChars(words) > max_subtitle_len
    THEN SplitSubtitle(words, 1, <<>>, 0, 0, subtitle_index,
                       IF chunk_duration > 0 THEN Len(words) ELSE default_words_per_sec,
                       IF chunk_duration > 0 THEN chunk_duration ELSE sample_rate,
                       chunk_duration)
    ELSE << [index |-> subtitle_index, start_time |-> 0,
             end_time |-> chunk_duration, text |-> words] >>

\* lines 759-806: the subtitle entries of one chunk whose audio has
\* chunk_duration samples and ends at current_time.
ChunkSubtitles(words, chunk_start_time, current_time, chunk_duration, subtitle_index) ==
    IF ChunkChars(words) > max_subtitle_len
    THEN SplitSubtitle(words, 1, <<>>, 0, chunk_start_time, subtitle_index,
                       IF chunk_duration > 0 THEN Len(words) ELSE default_words_per_sec,
                       IF chunk_duration > 0 THEN chunk_duration ELSE sample_rate,
                       current_time)
    ELSE << [index |-> subtitle_index, start_time |-> chunk_start_time,
             end_time |-> current_time, text |-> words] >>

\* the drained audio put in front of the audio collected so far
W_SynthReturn_Prepend ==
    /\ pc = "synth_wait"
    /\ \/ /\ \E n \in AudioResults :
               IF n # NoSegments
               THEN /\ loc' = [loc EXCEPT
                                 !.chunk_audio = n,
                                 !.all_audio = <<n>> \o loc.all_audio,
                                 !.current_time = loc.current_time + n]
                    /\ UNCHANGED job
               ELSE /\ loc' = [loc EXCEPT !.chunk_audio = n]
                    /\ UNCHANGED job
          /\ pc' = "progress"
          /\ UNCHANGED hist
       \/ /\ Raise("synthesis")
          /\ hist' = [hist EXCEPT !.raised_at = loc.i + 1]
          /\ UNCHANGED job
    /\ UNCHANGED <<jobs, files, now, chunkVars, mergeVars, records, engine, apiVars>>

\* lines 747-806: the generator is drained: the synthesizer raises, or
\* yields no segment, or yields segments of n samples in all.
\* `if chunk_audio:` then appends the audio, advances current_time and
\* adds the subtitle entries.
W_SynthReturn ==
    /\ pc = "synth_wait"
    /\ \/ /\ \E n \in AudioResults :
               IF n # NoSegments
               THEN LET chunk_duration == n
                        current_time == loc.current_time + chunk_duration
                        subs == IF job.subtitle_format # "none"
                                THEN ChunkSubtitles(loc.chunks[loc.i + 1],
                                                    loc.chunk_start_time, current_time,
                                                    chunk_duration, loc.subtitle_index)
                                ELSE <<>>
                    IN /\ loc' = [loc EXCEPT
                                    !.chunk_audio = n,
                                    !.all_audio = Append(loc.all_audio, n),
                                    !.current_time = current_time,
                                    !.subtitle_index = loc.subtitle_index + Len(subs)]
                       /\ job' = [job EXCEPT !.subtitles = job.subtitles \o subs]
               ELSE /\ loc' = [loc EXCEPT !.chunk_audio = n]
                    /\ UNCHANGED job
          /\ pc' = "progress"
          /\ UNCHANGED hist
       \/ /\ Raise("synthesis")
          /\ hist' = [hist EXCEPT !.raised_at = loc.i + 1]
          /\ UNCHANGED job
    /\ UNCHANGED <<jobs, files, now, chunkVars, mergeVars, records, engine, apiVars>>

\* lines 808-818: chars_processed_total += chunk_chars;
\* job.update_progress(chunk_chars); close the current chapter when its
\* cumulative character threshold has been reached; then the next
\* iteration.
W_Progress ==
    /\ pc = "progress"
    /\ LET chunk_chars == ChunkChars(loc.chunks[loc.i + 1])
           chars_processed_total == loc.chars_processed_total + chunk_chars
       IN IF /\ job.chapters # <<>>
             /\ loc.current_chapter_idx < Len(job.chapters)
             /\ chars_processed_total >=
                   SumSeq(Prefix(job.chapters, loc.current_chapter_idx + 1))
          THEN /\ loc' = [loc EXCEPT
                            !.chars_processed_total = chars_processed_total,
                            !.chapter_timestamps =
                                Append(loc.chapter_timestamps,
                                       <<loc.chapter_start_time, loc.current_time>>),
                            !.chapter_start_time = loc.current_time,
                            !.current_chapter_idx = loc.current_chapter_idx + 1,
                            !.i = loc.i + 1]
               /\ job' = [update_progress(job, chunk_chars) EXCEPT
                            !.current_chapter = loc.current_chapter_idx + 1]
          ELSE /\ loc' = [loc EXCEPT
                            !.chars_processed_total = chars_processed_total,
                            !.i = loc.i + 1]
               /\ job' = update_progress(job, chunk_chars)
    /\ pc' = "loop"
    /\ UNCHANGED <<jobs, files, now, hist, chunkVars, mergeVars, records, engine, apiVars>>

\* the final step without the cancellation check of lines 824-828
W_FinalCheck_NoCancel ==
    /\ pc = "final_check"
    /\ loc' = IF job.chapters # <<>> /\ Len(loc.chapter_timestamps) < Len(job.chapters)
              THEN [loc EXCEPT
                      !.chapter_timestamps =
                          Append(loc.chapter_timestamps,
                                 <<loc.chapter_start_time, loc.current_time>>)]
              ELSE loc
    /\ pc' = IF loc.all_audio # <<>> THEN "concat" ELSE "no_audio"
    /\ UNCHANGED <<jobs, job, files, now, hist, chunkVars, mergeVars, records, engine, apiVars>>

\* the final step with the WAV written before the cancellation check
W_FinalCheck_AfterWrite ==
    /\ pc = "final_check"
    /\ UNCHANGED loc
    /\ files' = IF loc.all_audio # <<>> THEN files \cup {"wav"} ELSE files
    /\ IF job.cancel_requested
       THEN /\ job' = [job EXCEPT !.status = CANCELLED]
            /\ pc' = "cancel_stamp"
       ELSE /\ pc' = IF loc.all_audio # <<>> THEN "convert" ELSE "no_audio"
            /\ UNCHANGED job
    /\ UNCHANGED <<jobs, now, hist, chunkVars, mergeVars, records, engine, apiVars>>

\* lines 820-831: the last chapter's pair; the cancellation check before
\* the final write; then `if all_audio:`
W_FinalCheck ==
    /\ pc = "final_check"
    /\ loc' = IF job.chapters # <<>> /\ Len(loc.chapter_timestamps) < Len(job.chapters)
              THEN [loc EXCEPT
                      !.chapter_timestamps =
                          Append(loc.chapter_timestamps,
                                 <<loc.chapter_start_time, loc.current_time>>)]
              ELSE loc
    /\ IF job.cancel_requested
       THEN /\ job' = [job EXCEPT !.status = CANCELLED]
            /\ pc' = "cancel_stamp"
       ELSE /\ pc' = IF loc.all_audio # <<>> THEN "concat" ELSE "no_audio"
            /\ UNCHANGED job
    /\ UNCHANGED <<jobs, files, now, hist, chunkVars, mergeVars, records, engine, apiVars>>

\* the else branch of `if all_audio:` reporting success
W_NoAudio_Completed ==
    /\ pc = "no_audio"
    /\ job' = [job EXCEPT !.status = COMPLETED]
    /\ pc' = "finally"
    /\ UNCHANGED <<jobs, loc, files, now, hist, chunkVars, mergeVars, records, engine, apiVars>>

\* lines 869-871: nothing was synthesized
W_NoAudio ==
    /\ pc = "no_audio"
    /\ job' = [job EXCEPT !.status = FAILED, !.error_message = "No audio generated"]
    /\ pc' = "finally"
    /\ UNCHANGED <<jobs, loc, files, now, hist, chunkVars, mergeVars, records, engine, apiVars>>

\* lines 832-833: full_audio = np.concatenate(all_audio), which may raise
\* (memory); job.duration_seconds = len(full_audio) / sample_rate, kept in
\* samples.
W_Concat ==
    /\ pc = "concat"
    /\ \/ /\ job' = [job EXCEPT !.duration_seconds = SumSeq(loc.all_audio)]
          /\ pc' = "write_wav"
          /\ UNCHANGED loc
       \/ /\ Raise("concatenate")
          /\ UNCHANGED job
    /\ UNCHANGED <<jobs, files, now, hist, chunkVars, mergeVars, records, engine, apiVars>>

\* a WAV write whose failure is noted but does not leave the try block
W_WriteWav_FailureIgnored ==
    /\ pc = "write_wav"
    /\ \/ /\ files' = files \cup {"wav"}
          /\ pc' = "convert"
          /\ UNCHANGED loc
       \/ /\ files' \in {files, files \cup {"wav"}}
          /\ loc' = [loc EXCEPT !.exc = "sf.write"]
          /\ pc' = "convert"
    /\ UNCHANGED <<jobs, job, now, hist, chunkVars, mergeVars, records, engine, apiVars>>

\* lines 836-837: sf.write(wav_file, ...); a failed write may leave a
\* partial file behind.
W_WriteWav ==
    /\ pc = "write_wav"
    /\ \/ /\ files' = files \cup {"wav"}
          /\ pc' = "convert"
          /\ UNCHANGED loc
       \/ /\ files' \in {files, files \cup {"wav"}}
          /\ Raise("sf.write")
    /\ UNCHANGED <<jobs, job, now, hist, chunkVars, mergeVars, records, engine, apiVars>>

\* _convert_to_mp3 (lines 610-620), entered with the files fs on disk and
\* the transcoder faults seen so far: pydub exports through the external
\* transcoder and raises when it is missing or fails; on success the WAV
\* is removed.
convert_to_mp3(fs, faults) ==
    \/ /\ files' = (fs \ {"wav"}) \cup {"mp3"}
       /\ loc' = [loc EXCEPT !.output_file = "mp3"]
       /\ hist' = [hist EXCEPT !.transcode_faults = faults]
       /\ pc' = "write_subtitles"
    \/ /\ files' \in {fs, fs \cup {"mp3"}}
       /\ hist' = [hist EXCEPT !.transcode_faults = faults \cup {"mp3_export"}]
       /\ Raise("mp3 export")

\* _convert_to_m4b (lines 623-676)
convert_to_m4b ==
    \* lines 634-637: ffmpeg is not installed: fall back to MP3
    \/ convert_to_mp3(files, hist.transcode_faults \cup {"ffmpeg_missing"})
    \* lines 640-651: the chapter metadata cannot be written
    \/ /\ files' \in {files, files \cup {"txt"}}
       /\ Raise("metadata")
       /\ UNCHANGED hist
    \* lines 655-669: ffmpeg succeeds; the WAV and the metadata are removed
    \/ /\ files' = (files \ {"wav", "txt"}) \cup {"m4b"}
       /\ loc' = [loc EXCEPT !.output_file = "m4b"]
       /\ pc' = "write_subtitles"
       /\ UNCHANGED hist
    \* lines 671-676: ffmpeg exits non-zero (it may leave a partial .m4b):
    \* the metadata is removed, fall back to MP3
    \/ \E partial \in {{}, {"m4b"}} :
          convert_to_mp3(files \cup partial, hist.transcode_faults \cup {"ffmpeg_failed"})
    \* line 655: subprocess.run raises something else than
    \* CalledProcessError (the binary cannot be executed)
    \/ /\ files' = files \cup {"txt"}
       /\ hist' = [hist EXCEPT !.transcode_faults = hist.transcode_faults \cup {"ffmpeg_failed"}]
       /\ Raise("ffmpeg")

\* lines 839-850: convert to the requested format
W_Convert ==
    /\ pc = "convert"
    /\ \/ /\ job.output_format = "mp3"
          /\ convert_to_mp3(files, hist.transcode_faults)
       \/ /\ job.output_format = "m4b"
          /\ convert_to_m4b
       \/ /\ job.output_format = "wav"
          /\ loc' = [loc EXCEPT !.output_file = "wav"]
          /\ pc' = "write_subtitles"
          /\ UNCHANGED <<files, hist>>
    /\ UNCHANGED <<jobs, job, now, chunkVars, mergeVars, records, engine, apiVars>>

\* _write_subtitles (lines 679-700) and lines 853-856
W_WriteSubtitles ==
    /\ pc = "write_subtitles"
    /\ IF job.subtitle_format = "none" \/ job.subtitles = <<>>
       THEN /\ pc' = "set_audio_path"
            /\ UNCHANGED <<job, loc, files>>
       ELSE \/ /\ files' = files \cup {job.subtitle_format}
               /\ job' = [job EXCEPT !.subtitle_path = job.subtitle_format]
               /\ pc' = "set_audio_path"
               /\ UNCHANGED loc
            \/ /\ files' \in {files, files \cup {job.subtitle_format}}
               /\ Raise("subtitles")
               /\ UNCHANGED job
    /\ UNCHANGED <<jobs, now, hist, chunkVars, mergeVars, records, engine, apiVars>>

\* line 859: job.audio_path = output_file
W_SetAudioPath ==
    /\ pc = "set_audio_path"
    /\ job' = [job EXCEPT !.audio_path = loc.output_file]
    /\ pc' = "stat"
    /\ UNCHANGED <<jobs, loc, files, now, hist, chunkVars, mergeVars, records, engine, apiVars>>

\* line 860: job.file_size_mb = output_file.stat().st_size / ...; stat
\* raises when the file is gone (DELETE /api/audiobook/{job_id} removes it).
W_Stat ==
    /\ pc = "stat"
    /\ \/ /\ pc' = "set_completed"
          /\ UNCHANGED loc
       \/ Raise("stat")
    /\ UNCHANGED <<jobs, job, files, now, hist, chunkVars, mergeVars, records, engine, apiVars>>

\* lines 861-868: job.status = COMPLETED, then the final statistics
W_SetCompleted ==
    /\ pc = "set_completed"
    /\ job' = [job EXCEPT !.status = COMPLETED]
    /\ pc' = "finally"
    /\ UNCHANGED <<jobs, loc, files, now, hist, chunkVars, mergeVars, records, engine, apiVars>>

\* an except clause that moves on to the next chunk of the loop when it can
W_Except_Continue ==
    /\ pc = "except"
    /\ IF loc.i < Len(loc.chunks) /\ loc.exc = "synthesis"
       THEN /\ pc' = "progress"
            /\ UNCHANGED job
       ELSE /\ job' = [job EXCEPT !.status = FAILED, !.error_message = loc.exc]
            /\ pc' = "finally"
    /\ UNCHANGED <<jobs, loc, files, now, hist, chunkVars, mergeVars, records, engine, apiVars>>

\* lines 873-877: except Exception as e
W_Except ==
    /\ pc = "except"
    /\ job' = [job EXCEPT !.status = FAILED, !.error_message = loc.exc]
    /\ pc' = "finally"
    /\ UNCHANGED <<jobs, loc, files, now, hist, chunkVars, mergeVars, records, engine, apiVars>>

\* lines 879-880: finally: job.completed_at = time.time()
W_Finally ==
    /\ pc = "finally"
    /\ job' = [job EXCEPT !.completed_at = now]
    /\ pc' = "done"
    /\ UNCHANGED <<jobs, loc, files, now, hist, chunkVars, mergeVars, records, engine, apiVars>>

----------------------------------------------------------------------------
(* The API side: operations that interleave with the worker *)

\* The worker has not yet made its check before the final write
BeforeFinalCheck ==
    pc \in {"get_engine", "mkdir", "begin", "loop", "synth_call", "synth_wait",
            "progress", "final_check"}

\* get_job (lines 883-886)
get_job(job_id) == IF job_id \in jobs THEN job ELSE NoJob

\* cancel_job (lines 889-895): TRUE iff the request is accepted
cancel_job(job_id) ==
    /\ job_id \in jobs
    /\ get_job(job_id).status \in {STARTED, PROCESSING}

\* POST /api/audiobook/cancel/{job_id} (main.py lines 1227-1240): 404 for
\* an unknown id, else cancel_job, which sets the flag when it accepts.
audiobook_cancel ==
    /\ pc # "idle"
    /\ IF cancel_job(1)
       THEN /\ job' = [job EXCEPT !.cancel_requested = TRUE]
            /\ hist' = IF hist.cancel_at = "none"
                       THEN [hist EXCEPT
                               !.cancel_at = IF BeforeFinalCheck THEN "early" ELSE "late"]
                       ELSE hist
       ELSE UNCHANGED <<job, hist>>
    /\ UNCHANGED <<jobs, pc, loc, files, now, chunkVars, mergeVars, records, engine, apiVars>>

\* GET /api/audiobook/status/{job_id} (main.py lines 1177-1224): the
\* response, a function of the state the poller sees
StatusResponse ==
    IF 1 \notin jobs THEN [code |-> 404]
    ELSE [code |-> 200, status |-> job.status, percent |-> percent(job),
          has_audio_url |-> (job.status = COMPLETED)]

\* the poll itself changes nothing
audiobook_status ==
    /\ pc # "idle"
    /\ StatusResponse.code \in {200, 404}
    /\ UNCHANGED vars

\* cleanup_old_jobs (lines 898-907)
cleanup_old_jobs(max_age_seconds) ==
    /\ pc # "idle"
    /\ jobs' = {id \in jobs : ~(job.completed_at # 0 /\ now - job.completed_at > max_age_seconds)}
    /\ UNCHANGED <<job, pc, loc, files, now, hist, chunkVars, mergeVars, records, engine, apiVars>>

\* Time passes.  The worker reads the clock only to stamp completed_at
\* (lines 736, 827, 880) and cleanup_old_jobs only compares it with a
\* completed_at that is set, so the clock is let run from the first stamp
\* on: earlier ticks would shift every stamp alike.
Tick ==
    /\ job.completed_at # 0
    /\ now < MaxTime
    /\ now' = now + 1
    /\ UNCHANGED <<jobs, job, pc, loc, files, hist, chunkVars, mergeVars, records, engine, apiVars>>

----------------------------------------------------------------------------
(* The specification of one job *)

Init ==
    /\ jobs = {}
    /\ job = NoJob
    /\ pc = "idle"
    /\ loc = NoLocals
    /\ files = {}
    /\ now = 1
    /\ hist = NoHist
    /\ text = <<>>
    /\ max_chars = 1
    /\ result = [fn |-> "none", chunks |-> <<>>]
    /\ buffers = <<>>
    /\ rate = 1000
    /\ crossfade_ms = 0
    /\ merged = [frames |-> <<>>, channels |-> 0, ndim |-> 0,
               cols |-> <<>>, raised |-> FALSE]
    /\ request = [text |-> <<>>, output_format |-> "wav", subtitle_format |-> "none",
                  smart_chunking |-> TRUE, max_chars_per_chunk |-> 1500,
                  crossfade_ms |-> 40]
    /\ response = [code |-> 0]
    /\ api_pc = "idle"
    /\ records = NoRecords
    /\ engine = NoEngine

Worker ==
    \/ W_GetEngine \/ W_Mkdir \/ W_Begin \/ W_LoopHead \/ W_CancelStamp
    \/ W_SynthCall \/ W_SynthReturn \/ W_Progress
    \/ W_FinalCheck \/ W_NoAudio \/ W_Concat
    \/ W_WriteWav \/ W_Convert \/ W_WriteSubtitles \/ W_SetAudioPath \/ W_Stat
    \/ W_SetCompleted \/ W_Except \/ W_Finally

Next ==
    \/ create_audiobook_job
    \/ Worker
    \/ audiobook_cancel
    \/ audiobook_status
    \/ \E max_age \in 0..(MaxTime - 1) : cleanup_old_jobs(max_age)
    \/ Tick

Spec == Init /\ [][Next]_vars

----------------------------------------------------------------------------
(* Claims about the job state machine *)

WorkerEnded == pc \in {"done", "crashed"}

StatusEdges ==
    {<<STARTED, PROCESSING>>, <<PROCESSING, COMPLETED>>,
     <<PROCESSING, FAILED>>, <<PROCESSING, CANCELLED>>}

\* C1: a job's status changes only along STARTED->PROCESSING,
\* PROCESSING->COMPLETED, PROCESSING->FAILED or PROCESSING->CANCELLED, and
\* a terminal status never changes again, whatever cancel, status poll or
\* cleanup calls interleave with the worker.
C1_StatusMonotonic ==
    [][(job.status # "none" /\ job'.status # job.status)
          => <<job.status, job'.status>> \in StatusEdges]_vars

\* C1 witness: a job cancelled through the API ended in a terminal status
\* and was swept from the registry.
C1_Witness ==
    /\ pc = "done"
    /\ job.status = CANCELLED
    /\ job.cancel_requested
    /\ jobs = {}

\* C2: at every instant a poller can observe, audio_path is set if and
\* only if status is COMPLETED.
C2_AudioPathIffCompleted ==
    (job.audio_path # "none") <=> (job.status = COMPLETED)

PercentInRange == percent(job) >= 0 /\ percent(job) <= 1000

\* C3 as claimed: percent never decreases, lies in [0, 100], and is 100
\* only in states whose status is COMPLETED.
C3_PercentHundredOnlyCompleted ==
    /\ [][percent(job)' >= percent(job)]_vars
    /\ [](PercentInRange /\ (percent(job) = 1000 => job.status = COMPLETED))

\* C3 as amended: percent never decreases, lies in [0, 100], and is 100 in
\* every state whose status is COMPLETED (it can already be 100 earlier).
C3_PercentMonotonic ==
    /\ [][percent(job)' >= percent(job)]_vars
    /\ [](PercentInRange /\ (job.status = COMPLETED => percent(job) = 1000))

\* C3 witness: a two-chunk job completed at 100 percent.
C3_Witness ==
    /\ job.status = COMPLETED
    /\ job.total_chunks = 2
    /\ job.total_chars > 0
    /\ percent(job) = 1000

\* C4 as claimed: a cancellation requested before the worker's final
\* pre-write check makes the final status CANCELLED, with completed_at set
\* and audio_path unset.
C4_EarlyCancelEndsCancelled ==
    (hist.cancel_at = "early" /\ pc = "done")
        => /\ job.status = CANCELLED
           /\ job.completed_at # 0
           /\ job.audio_path = "none"

\* C4 as amended: after such a request the job never becomes COMPLETED and
\* audio_path stays unset; a worker that runs to its end leaves the job
\* CANCELLED, or FAILED when load_model or a synthesis call raised before
\* the next check, with completed_at set; a worker that died before its
\* try block leaves the job STARTED.
C4_EarlyCancelNeverCompletes ==
    hist.cancel_at = "early"
        => /\ job.audio_path = "none"
           /\ job.status # COMPLETED
           /\ pc = "done"
                => /\ job.completed_at # 0
                   /\ \/ job.status = CANCELLED
                      \/ /\ job.status = FAILED
                         /\ job.error_message \in {"synthesis", "load_model"}
           /\ pc = "crashed" => job.status = STARTED /\ job.completed_at = 0

\* C4 witness: the request arrived while chunk 1 of 2 was being
\* synthesized (no synthesis call began after it) and the job ended
\* CANCELLED.
C4_Witness ==
    /\ pc = "done"
    /\ hist.cancel_at = "early"
    /\ job.total_chunks = 2
    /\ job.current_chunk = 1
    /\ hist.synth_calls = <<1>>
    /\ hist.synth_after_cancel = 0
    /\ job.status = CANCELLED
    /\ job.completed_at # 0
    /\ job.audio_path = "none"

\* C5: when the synthesis call of chunk i raises, the job ends FAILED with
\* the captured message, chunk i is not retried, no later chunk is
\* synthesized and no output artifact path is recorded.
C5_SynthesisFailureFails ==
    hist.raised_at # 0
        => /\ hist.synth_calls = [k \in 1..hist.raised_at |-> k]
           /\ job.audio_path = "none"
           /\ pc \in {"except", "finally", "done"}
           /\ pc \in {"finally", "done"}
                => job.status = FAILED /\ job.error_message = "synthesis"
           /\ pc = "done" => job.completed_at # 0

\* C5 witness: chunk 1 of 2 raised and the job ended FAILED with chunk 2
\* never synthesized.
C5_Witness ==
    /\ pc = "done"
    /\ hist.raised_at = 1
    /\ hist.synth_calls = <<1>>
    /\ job.total_chunks = 2
    /\ job.status = FAILED
    /\ job.error_message = "synthesis"

\* C6: every job whose worker was started ends COMPLETED, FAILED or
\* CANCELLED with completed_at set: a failure of any step of the worker
\* becomes FAILED and never leaves the job STARTED or PROCESSING.
C6_WorkerEndsTerminal ==
    WorkerEnded => job.status \in Terminal /\ job.completed_at # 0

\* C7: a missing or failing external transcoder does not fail the job: a
\* job that asked for mp3 or m4b still ends COMPLETED, with an artifact in
\* a degraded format.
C7_TranscodeFaultDegrades ==
    (pc = "done" /\ hist.transcode_faults # {}
        /\ job.error_message \notin {"subtitles", "stat"})
        => /\ job.status = COMPLETED
           /\ job.audio_path \in {"wav", "mp3"}

\* C8: the subtitle entries of a job satisfy start_time <= end_time, every
\* start_time is >= the previous end_time, and the last end_time is <= the
\* audio duration accumulated so far.
C8_SubtitlesOrdered ==
    LET subs == job.subtitles
    IN /\ \A k \in 1..Len(subs) : subs[k].start_time <= subs[k].end_time
       /\ \A k \in 2..Len(subs) : subs[k].start_time >= subs[k - 1].end_time
       /\ subs # <<>> => subs[Len(subs)].end_time <= loc.current_time

\* C12: a job whose status is CANCELLED has written no file (no WAV, MP3 or
\* M4B artifact, no metadata, no subtitle sidecar) and audio_path,
\* subtitle_path and duration_seconds still have their initial values.
C12_CancelledWritesNothing ==
    job.status = CANCELLED
        => /\ files = {}
           /\ job.audio_path = "none"
           /\ job.subtitle_path = "none"
           /\ job.duration_seconds = 0

\* C12 witness: a job cancelled after a chunk had produced audio ended
\* CANCELLED with nothing on disk.
C12_Witness ==
    /\ pc = "done"
    /\ job.status = CANCELLED
    /\ loc.all_audio # <<>>
    /\ loc.current_time > 0
    /\ files = {}

\* the characters of the first n chunks handed to the worker
CharsOfChunks(n) ==
    SumSeq([k \in 1..n |-> ChunkChars(loc.chunks[k])])

\* C13: processed_chars never decreases and never exceeds total_chars;
\* total_chars is the sum of the chunk lengths fixed at creation, and
\* processed_chars is the sum of the lengths of the chunks the worker has
\* gone through, each counted once.
C13_ProcessedCharsBounded ==
    /\ [][job.processed_chars' >= job.processed_chars
            /\ (job.status # "none" => job.total_chars' = job.total_chars)]_vars
    /\ [](/\ job.processed_chars <= job.total_chars
          /\ job.total_chars = CharsOfChunks(Len(loc.chunks))
          /\ job.processed_chars = CharsOfChunks(loc.i))

\* C13 witness: between the two chunks of a job, the first one counted and
\* the second not yet.
C13_Witness ==
    /\ pc = "synth_wait"
    /\ job.total_chunks = 2
    /\ loc.i = 1
    /\ job.processed_chars = ChunkChars(LongChunk)
    /\ job.processed_chars < job.total_chars

C19_CancellationCooperative ==
    /\ [][/\ ((job.status' = CANCELLED /\ job.status # CANCELLED)
                => (pc \in {"loop", "final_check"} /\ job.cancel_requested))
           /\ ((pc = "synth_wait" /\ pc' # pc)
                => (pc' \in {"progress", "except"} /\ job.status' = job.status))]_vars
    /\ [](hist.synth_after_cancel <= 1)

\* C19 witness: the flag was set between the check at the head of the loop
\* and the synthesis call of chunk 1 of 2; that call ran, chunk 2 was never
\* synthesized and the job ended CANCELLED.
C19_Witness ==
    /\ pc = "done"
    /\ job.status = CANCELLED
    /\ job.total_chunks = 2
    /\ hist.synth_calls = <<1>>
    /\ hist.synth_after_cancel = 1
    /\ job.processed_chars > 0

SubtitleFiles == {"srt", "vtt"}

\* the exceptions of the primary write and of the transcoders
PrimaryFailures == {"sf.write", "mp3 export", "metadata", "ffmpeg"}

C21_SequentialSynthesis ==
    /\ [][/\ ((hist.synth_calls' # hist.synth_calls)
                => (/\ pc = "synth_call" /\ pc' = "synth_wait"
                    /\ hist.synth_calls' =
                          Append(hist.synth_calls, Len(hist.synth_calls) + 1)
                    /\ job.current_chunk = Len(hist.synth_calls) + 1
                    /\ Len(hist.synth_calls) < job.total_chunks))
           /\ ((job.current_chunk' # job.current_chunk)
                => (job.current_chunk' = job.current_chunk + 1))
           /\ ((loc.all_audio' # loc.all_audio /\ pc # "idle")
                => (/\ pc = "synth_wait"
                    /\ loc.i + 1 = hist.synth_calls[Len(hist.synth_calls)]
                    /\ \E n \in AudioResults \ {NoSegments} :
                          loc.all_audio' = Append(loc.all_audio, n)))]_vars
    /\ [](/\ Len(loc.all_audio) <= Len(hist.synth_calls)
          /\ ((pc = "synth_wait") => (Len(hist.synth_calls) = loc.i + 1))
          /\ ((pc # "synth_wait") => (Len(hist.synth_calls) \in {loc.i, loc.i + 1})))

\* C21 witness: both chunks of a job were synthesized, 1 then 2, their
\* audio (of different lengths) is in the output in that order and the
\* job completed.
C21_Witness ==
    /\ pc = "done"
    /\ job.status = COMPLETED
    /\ hist.synth_calls = <<1, 2>>
    /\ loc.all_audio = <<0, sample_rate>>
    /\ job.current_chunk = 2

\* the chapters whose cumulative character threshold is at most n
ChaptersReached(chapters, n) ==
    {c \in 1..Len(chapters) : SumSeq(Prefix(chapters, c)) <= n}

\* C22: after each chunk is processed (the worker is back at the head of
\* the loop), current_chapter is the number of chapters whose cumulative
\* threshold is at most the characters processed, there is one pair per
\* such chapter, and the last of them ends at the current audio time,
\* where the next chapter starts.
C22_ChaptersClosedAtThreshold ==
    (pc = "loop" /\ loc.i > 0 /\ job.chapters # <<>>)
        => LET reached == Cardinality(ChaptersReached(job.chapters, loc.chars_processed_total))
           IN /\ job.current_chapter = reached
              /\ Len(loc.chapter_timestamps) = reached
              /\ loc.chapter_start_time =
                    IF reached = 0 THEN 0
                    ELSE loc.chapter_timestamps[reached][2]

\* The worker has concatenated the audio and is about to write it: the
\* chapter pairs are final and duration_seconds is the total duration.
Finalizing == pc \in {"write_wav", "convert"}

\* C23: when a job with chapters is finalized, the last recorded pair ends
\* at the total audio duration.
C23_FinalChapterEndsAtDuration ==
    (Finalizing /\ job.chapters # <<>>)
        => /\ loc.chapter_timestamps # <<>>
           /\ loc.chapter_timestamps[Len(loc.chapter_timestamps)][2] = job.duration_seconds

\* C30: when a job with chapters is finalized there is exactly one pair
\* per chapter, the first pair starts at 0, each pair starts where the
\* previous one ends and no pair ends before it starts.
C30_OnePairPerChapter ==
    (Finalizing /\ job.chapters # <<>>)
        => LET ts == loc.chapter_timestamps
           IN /\ Len(ts) = Len(job.chapters)
              /\ ts[1][1] = 0
              /\ \A k \in 1..Len(ts) : ts[k][1] <= ts[k][2]
              /\ \A k \in 2..Len(ts) : ts[k][1] = ts[k - 1][2]

\* C26: once cancel_job has accepted a request (it alone sets the flag),
\* the job is never COMPLETED, and when its worker has ended its status is
\* CANCELLED or FAILED and no audio path is published.
C26_AcceptedCancelNeverCompletes ==
    job.cancel_requested
        => /\ job.status # COMPLETED
           /\ (pc = "done") => (/\ job.status \in {CANCELLED, FAILED}
                                /\ job.audio_path = "none")

\* C27: a job whose worker ended with status FAILED has left no file of
\* its own in outputs/.
C27_FailedLeavesNoFile ==
    (pc = "done" /\ job.status = FAILED) => files = {}

----------------------------------------------------------------------------
(* The chunkers: text is a sequence of one-character strings *)

Whitespace == {" ", "\t", "\n", "\r"}
SentenceEnd == {".", "!", "?"}
Upper == {"A", "B", "C", "D", "E", "F", "G", "H", "I", "J", "K", "L", "M",
          "N", "O", "P", "Q", "R", "S", "T", "U", "V", "W", "X", "Y", "Z"}

\* The characters the bounded texts are written in: a lower-case letter,
\* an upper-case letter, a sentence end and a blank.
Alphabet == {"a", "B", ".", " "}
Texts == SeqsUpTo(Alphabet, MaxTextLen)

RECURSIVE LStrip(_)
LStrip(s) == IF s # <<>> /\ Head(s) \in Whitespace THEN LStrip(Tail(s)) ELSE s

RECURSIVE RStrip(_)
RStrip(s) ==
    IF s # <<>> /\ s[Len(s)] \in Whitespace THEN RStrip(SubSeq(s, 1, Len(s) - 1)) ELSE s

\* str.strip()
Strip(s) == RStrip(LStrip(s))

\* re.sub(r'\s+', ' ', s): every maximal run of whitespace becomes one blank
RECURSIVE CollapseWhitespace(_)
CollapseWhitespace(s) ==
    IF s = <<>> THEN <<>>
    ELSE IF Head(s) \in Whitespace THEN <<" ">> \o CollapseWhitespace(LStrip(Tail(s)))
    ELSE <<Head(s)>> \o CollapseWhitespace(Tail(s))

\* re.sub(r'\s+', ' ', text).strip()
NormalizeWhitespace(s) == Strip(CollapseWhitespace(s))

\* str.split(): the maximal runs of non-whitespace
RECURSIVE SplitWords(_)
SplitWords(s) ==
    LET t == LStrip(s)
    IN IF t = <<>> THEN <<>>
       ELSE LET n == CHOOSE n \in 1..Len(t) :
                        /\ \A k \in 1..n : t[k] \notin Whitespace
                        /\ n = Len(t) \/ t[n + 1] \in Whitespace
            IN <<SubSeq(t, 1, n)>> \o SplitWords(SubSeq(t, n + 1, Len(t)))

\* ' '.join(parts)
RECURSIVE JoinSpace(_)
JoinSpace(parts) ==
    IF parts = <<>> THEN <<>>
    ELSE IF Len(parts) = 1 THEN parts[1]
    ELSE parts[1] \o <<" ">> \o JoinSpace(Tail(parts))

\* [p.strip() for p in parts if p.strip()]
RECURSIVE StripNonEmpty(_)
StripNonEmpty(parts) ==
    IF parts = <<>> THEN <<>>
    ELSE IF Strip(Head(parts)) # <<>>
         THEN <<Strip(Head(parts))>> \o StripNonEmpty(Tail(parts))
         ELSE StripNonEmpty(Tail(parts))

\* The end of the whitespace run that starts at position p of s
RECURSIVE RunEnd(_, _)
RunEnd(s, p) == IF p < Len(s) /\ s[p + 1] \in Whitespace THEN RunEnd(s, p + 1) ELSE p

\* re.split over s from position p on, `start` being where the current
\* piece began.  A separator is a whitespace run after a sentence end
\* (?<=[.!?])\s+ that, when need_upper, is followed by an upper-case letter
\* (?=[A-Z]); when end_match, the empty string at the end of s after a
\* sentence end (?<=[.!?])$ is a separator too and leaves a last piece ''.
RECURSIVE ReSplit(_, _, _, _, _)
ReSplit(s, p, start, need_upper, end_match) ==
    IF p > Len(s)
    THEN IF end_match /\ Len(s) > 0 /\ s[Len(s)] \in SentenceEnd
         THEN <<SubSeq(s, start, Len(s)), <<>> >>
         ELSE <<SubSeq(s, start, Len(s))>>
    ELSE IF /\ s[p] \in Whitespace
            /\ p > 1
            /\ s[p - 1] \in SentenceEnd
            /\ need_upper => (RunEnd(s, p) < Len(s) /\ s[RunEnd(s, p) + 1] \in Upper)
         THEN <<SubSeq(s, start, p - 1)>>
              \o ReSplit(s, RunEnd(s, p) + 1, RunEnd(s, p) + 1, need_upper, end_match)
         ELSE ReSplit(s, p + 1, start, need_upper, end_match)

\* audiobook.split_into_sentences_regex (lines 200-225); the split on
\* '\n' of line 220 finds no line break in normalized text.
kokoro_split_into_sentences_regex(t) ==
    LET norm == NormalizeWhitespace(t)
        sentences == StripNonEmpty(ReSplit(norm, 1, 1, TRUE, TRUE))
        lines == StripNonEmpty(<<norm>>)
    IN IF sentences # <<>> THEN sentences
       ELSE IF lines # <<>> THEN lines
       ELSE <<norm>>

\* text_chunking.split_into_sentences_regex (lines 46-53)
smart_split_into_sentences_regex(t) ==
    LET norm == NormalizeWhitespace(t)
    IN IF norm = <<>> THEN <<>>
       ELSE StripNonEmpty(ReSplit(norm, 1, 1, FALSE, FALSE))

\* `if temp_chunk: chunks.append(' '.join(temp_chunk))` dropped
flush_dropped(chunks, parts) == chunks

\* `if current_chunk: chunks.append(' '.join(current_chunk))`
\* (audiobook.py lines 259-260, 276-277, 290-291; text_chunking.py lines
\* 73-74, 91-92, 103-104)
flush(chunks, parts) ==
    IF parts # <<>> THEN Append(chunks, JoinSpace(parts)) ELSE chunks

\* audiobook.py lines 265-277: a sentence longer than max_chars is cut at
\* word boundaries
RECURSIVE kokoro_split_words(_, _, _, _, _, _)
kokoro_split_words(words, k, chunks, temp_chunk, temp_len, m) ==
    IF k > Len(words) THEN flush(chunks, temp_chunk)
    ELSE IF temp_len + Len(words[k]) + 1 > m /\ temp_chunk # <<>>
         THEN kokoro_split_words(words, k + 1, Append(chunks, JoinSpace(temp_chunk)),
                                 <<words[k]>>, Len(words[k]), m)
         ELSE kokoro_split_words(words, k + 1, chunks, Append(temp_chunk, words[k]),
                                 temp_len + Len(words[k]) + 1, m)

\* audiobook.py lines 253-293: the loop over the sentences
RECURSIVE kokoro_loop(_, _, _, _, _, _)
kokoro_loop(sentences, k, chunks, current_chunk, current_length, m) ==
    IF k > Len(sentences) THEN flush(chunks, current_chunk)
    ELSE LET sentence == sentences[k]
             sentence_len == Len(sentence)
         IN IF sentence_len > m
            THEN kokoro_loop(sentences, k + 1,
                             kokoro_split_words(SplitWords(sentence), 1,
                                                flush(chunks, current_chunk), <<>>, 0, m),
                             <<>>, IF current_chunk # <<>> THEN 0 ELSE current_length, m)
            ELSE IF current_length + sentence_len + 1 > m /\ current_chunk # <<>>
            THEN kokoro_loop(sentences, k + 1, Append(chunks, JoinSpace(current_chunk)),
                             <<sentence>>, sentence_len, m)
            ELSE kokoro_loop(sentences, k + 1, chunks, Append(current_chunk, sentence),
                             current_length + sentence_len + 1, m)

\* audiobook.chunk_text_for_kokoro (lines 235-293), spaCy not installed
chunk_text_for_kokoro(t, m) ==
    kokoro_loop(kokoro_split_into_sentences_regex(t), 1, <<>>, <<>>, 0, m)

\* text_chunking.py line 83 without the blank between the words
smart_word_overflows_no_blank(temp_len, word_len, m) == temp_len + word_len > m

\* text_chunking.py line 83: `temp_len + len(word) + 1 > max_chars`
smart_word_overflows(temp_len, word_len, m) == temp_len + word_len + 1 > m

\* text_chunking.py lines 78-92
RECURSIVE smart_split_words(_, _, _, _, _, _)
smart_split_words(words, k, chunks, temp_chunk, temp_len, m) ==
    IF k > Len(words) THEN flush(chunks, temp_chunk)
    ELSE IF smart_word_overflows(temp_len, Len(words[k]), m) /\ temp_chunk # <<>>
         THEN smart_split_words(words, k + 1, Append(chunks, JoinSpace(temp_chunk)),
                                <<words[k]>>, Len(words[k]), m)
         ELSE smart_split_words(words, k + 1, chunks, Append(temp_chunk, words[k]),
                                temp_len + Len(words[k]) + (IF temp_len # 0 THEN 1 ELSE 0), m)

\* text_chunking.py lines 67-106: the loop over the sentences
RECURSIVE smart_loop(_, _, _, _, _, _)
smart_loop(sentences, k, chunks, current_chunk, current_len, m) ==
    IF k > Len(sentences) THEN flush(chunks, current_chunk)
    ELSE LET sentence == Strip(sentences[k])
         IN IF sentence = <<>>
            THEN smart_loop(sentences, k + 1, chunks, current_chunk, current_len, m)
            ELSE IF Len(sentence) > m
            THEN smart_loop(sentences, k + 1,
                            smart_split_words(SplitWords(sentence), 1,
                                              flush(chunks, current_chunk), <<>>, 0, m),
                            <<>>, IF current_chunk # <<>> THEN 0 ELSE current_len, m)
            ELSE IF current_len + Len(sentence) + (IF current_len # 0 THEN 1 ELSE 0) > m
                    /\ current_chunk # <<>>
            THEN smart_loop(sentences, k + 1, Append(chunks, JoinSpace(current_chunk)),
                            <<sentence>>, Len(sentence), m)
            ELSE smart_loop(sentences, k + 1, chunks, Append(current_chunk, sentence),
                            current_len + Len(sentence) + (IF current_len # 0 THEN 1 ELSE 0), m)

\* text_chunking.smart_chunk_text (lines 56-106), spaCy not installed
smart_chunk_text(t, m) ==
    LET norm == NormalizeWhitespace(t)
    IN IF norm = <<>> THEN <<>>
       ELSE smart_loop(smart_split_into_sentences_regex(norm), 1, <<>>, <<>>, 0, m)

NoResult == [fn |-> "none", chunks |-> <<>>]

Call_chunk_text_for_kokoro ==
    /\ result = NoResult
    /\ result' = [fn |-> "chunk_text_for_kokoro", chunks |-> chunk_text_for_kokoro(text, max_chars)]
    /\ UNCHANGED <<jobVars, text, max_chars, mergeVars, records, engine, apiVars>>

Call_smart_chunk_text ==
    /\ result = NoResult
    /\ result' = [fn |-> "smart_chunk_text", chunks |-> smart_chunk_text(text, max_chars)]
    /\ UNCHANGED <<jobVars, text, max_chars, mergeVars, records, engine, apiVars>>

InitChunk ==
    /\ jobs = {}
    /\ job = NoJob
    /\ pc = "idle"
    /\ loc = NoLocals
    /\ files = {}
    /\ now = 1
    /\ hist = NoHist
    /\ text \in Texts
    /\ max_chars \in 1..MaxMaxChars
    /\ result = NoResult
    /\ buffers = <<>>
    /\ rate = 1000
    /\ crossfade_ms = 0
    /\ merged = [frames |-> <<>>, channels |-> 0, ndim |-> 0,
               cols |-> <<>>, raised |-> FALSE]
    /\ request = [text |-> <<>>, output_format |-> "wav", subtitle_format |-> "none",
                  smart_chunking |-> TRUE, max_chars_per_chunk |-> 1500,
                  crossfade_ms |-> 40]
    /\ response = [code |-> 0]
    /\ api_pc = "idle"
    /\ records = NoRecords
    /\ engine = NoEngine

NextChunk == Call_chunk_text_for_kokoro \/ Call_smart_chunk_text

SpecChunk == InitChunk /\ [][NextChunk]_vars

----------------------------------------------------------------------------
(* Claims about the chunkers *)

\* The words of the chunks, chunk after chunk
RECURSIVE ChunkWords(_)
ChunkWords(chunks) ==
    IF chunks = <<>> THEN <<>> ELSE SplitWords(Head(chunks)) \o ChunkWords(Tail(chunks))

C10_ChunkLengthBounded ==
    result # NoResult
        => \A k \in 1..Len(result.chunks) :
              \/ Len(result.chunks[k]) <= max_chars
              \/ Len(SplitWords(result.chunks[k])) = 1

\* C10 witness: smart_chunk_text returned a chunk that fills max_chars
\* exactly beside a single word longer than max_chars.
C10_Witness ==
    /\ result.fn = "smart_chunk_text"
    /\ \E k \in 1..Len(result.chunks) : Len(result.chunks[k]) = max_chars
    /\ \E k \in 1..Len(result.chunks) :
          Len(result.chunks[k]) > max_chars /\ Len(SplitWords(result.chunks[k])) = 1

\* C17: for every text, blank ones included, no sentence either sentence
\* segmenter returns is empty, and no chunk of either chunker is the
\* empty string.
C17_NoEmptySentence ==
    result # NoResult
        => /\ \A k \in 1..Len(kokoro_split_into_sentences_regex(text)) :
                 kokoro_split_into_sentences_regex(text)[k] # <<>>
           /\ \A k \in 1..Len(smart_split_into_sentences_regex(text)) :
                 smart_split_into_sentences_regex(text)[k] # <<>>
           /\ \A k \in 1..Len(result.chunks) : result.chunks[k] # <<>>

----------------------------------------------------------------------------
(* merge_audio_chunks (backend/tts/audio_utils.py) *)

\* An input buffer is [len, ndim, channels]: a 1-D array of len samples, or
\* a 2-D array of len frames by `channels` columns.  A frame of the output
\* is the set of input positions <<buffer, frame>> mixed into it.
MaxBuffers == 3       \* most buffers of one merge
MaxBufLen == 2        \* longest buffer, in frames
MaxCrossfadeMs == 2   \* largest crossfade_ms

Shapes ==
    {[ndim |-> 1, channels |-> 1], [ndim |-> 2, channels |-> 1],
     [ndim |-> 2, channels |-> 2], [ndim |-> 2, channels |-> 3]}

Buffers ==
    {[len |-> n, ndim |-> sh.ndim, channels |-> sh.channels] :
        n \in 0..MaxBufLen, sh \in Shapes}

BufferLists == SeqsUpTo(Buffers, MaxBuffers)

\* 1000 frames per second makes one millisecond one frame; 500 makes the
\* division of line 46 inexact.
SampleRates == {500, 1000}

NoMerged == [frames |-> <<>>, channels |-> 0, ndim |-> 0,
               cols |-> <<>>, raised |-> FALSE]

Min(a, b) == IF a < b THEN a ELSE b
Max(a, b) == IF a > b THEN a ELSE b

\* np.asarray(chunks[i]) followed by _to_2d (lines 23-26, 43-44, 49-50).
\* cols[c] is the input column that column c of the array holds; raised
\* tells that a numpy operation on the array raised ValueError.
to_2d(i, buf) ==
    [frames |-> [p \in 1..buf.len |-> {<<i, p>>}],
     channels |-> buf.channels,
     cols |-> [c \in 1..buf.channels |-> c],
     was_1d |-> (buf.ndim = 1),
     raised |-> FALSE]

\* the crossfade length rounded up instead of truncated
crossfade_samples_rounded_up(sr, k) ==
    Max(0, (sr * k + 999) \div 1000)

\* line 46: max(0, int(sample_rate * crossfade_ms / 1000))
crossfade_samples(sr, k) ==
    Max(0, (sr * k) \div 1000)

\* one pass of the loop without the fallback of lines 52-56
merge_step_no_fallback(output, chunk, xfade) ==
    LET mixed == output.channels # chunk.channels
        out_len == Len(output.frames)
        overlap == Min(xfade, Min(out_len, Len(chunk.frames)))
        frames ==
            IF overlap > 0
            THEN SubSeq(output.frames, 1, out_len - overlap)
                 \o [j \in 1..overlap |->
                        output.frames[out_len - overlap + j] \cup chunk.frames[j]]
                 \o SubSeq(chunk.frames, overlap + 1, Len(chunk.frames))
            ELSE output.frames \o chunk.frames
        output_cols == output.cols
        chunk_cols == chunk.cols
    IN [frames |-> frames,
        channels |-> Len(output_cols),
        cols |-> output_cols,
        was_1d |-> (IF FALSE THEN TRUE ELSE output.was_1d) /\ chunk.was_1d,
        raised |-> output.raised \/ Len(output_cols) # Len(chunk_cols)]

\* lines 52-70: one pass of the loop, merging chunk into output.  Blending
\* and np.concatenate (lines 62-68) need both arrays to have the same
\* number of columns and raise ValueError otherwise.
merge_step(output, chunk, xfade) ==
    LET mixed == output.channels # chunk.channels
        out_len == Len(output.frames)
        overlap == Min(xfade, Min(out_len, Len(chunk.frames)))
        frames ==
            IF overlap > 0
            THEN SubSeq(output.frames, 1, out_len - overlap)
                 \o [j \in 1..overlap |->
                        output.frames[out_len - overlap + j] \cup chunk.frames[j]]
                 \o SubSeq(chunk.frames, overlap + 1, Len(chunk.frames))
            ELSE output.frames \o chunk.frames
        output_cols == IF mixed THEN SubSeq(output.cols, 1, 1) ELSE output.cols
        chunk_cols == IF mixed THEN SubSeq(chunk.cols, 1, 1) ELSE chunk.cols
    IN [frames |-> frames,
        channels |-> Len(output_cols),
        cols |-> output_cols,
        was_1d |-> (IF mixed THEN TRUE ELSE output.was_1d) /\ chunk.was_1d,
        raised |-> output.raised \/ Len(output_cols) # Len(chunk_cols)]

\* lines 48-70: for chunk in chunks[1:]
RECURSIVE merge_loop(_, _, _, _)
merge_loop(output, bufs, i, xfade) ==
    IF i > Len(bufs) THEN output
    ELSE merge_loop(merge_step(output, to_2d(i, bufs[i]), xfade), bufs, i + 1, xfade)

\* _from_2d (lines 29-30)
from_2d(output) ==
    [frames |-> output.frames,
     channels |-> IF output.was_1d THEN 1 ELSE output.channels,
     ndim |-> IF output.was_1d THEN 1 ELSE 2,
     cols |-> IF output.was_1d THEN SubSeq(output.cols, 1, 1) ELSE output.cols,
     raised |-> output.raised]

\* merge_audio_chunks (lines 33-72)
merge_audio_chunks(bufs, sr, k) ==
    IF bufs = <<>>
    THEN [frames |-> <<>>, channels |-> 1, ndim |-> 1, cols |-> <<1>>, raised |-> FALSE]
    ELSE from_2d(merge_loop(to_2d(1, bufs[1]), bufs, 2,
                            crossfade_samples(sr, k)))

Call_merge_audio_chunks ==
    /\ merged = NoMerged
    /\ merged' = merge_audio_chunks(buffers, rate, crossfade_ms)
    /\ UNCHANGED <<jobVars, chunkVars, buffers, rate, crossfade_ms, apiVars, records, engine>>

InitMerge ==
    /\ jobs = {}
    /\ job = NoJob
    /\ pc = "idle"
    /\ loc = NoLocals
    /\ files = {}
    /\ now = 1
    /\ hist = NoHist
    /\ text = <<>>
    /\ max_chars = 1
    /\ result = NoResult
    /\ buffers \in BufferLists
    /\ rate \in SampleRates
    /\ crossfade_ms \in 0..MaxCrossfadeMs
    /\ merged = NoMerged
    /\ request = [text |-> <<>>, output_format |-> "wav", subtitle_format |-> "none",
                  smart_chunking |-> TRUE, max_chars_per_chunk |-> 1500,
                  crossfade_ms |-> 40]
    /\ response = [code |-> 0]
    /\ api_pc = "idle"
    /\ records = NoRecords
    /\ engine = NoEngine

NextMerge == Call_merge_audio_chunks

SpecMerge == InitMerge /\ [][NextMerge]_vars

----------------------------------------------------------------------------
(* Claims about merge_audio_chunks *)

BufferLens == [i \in 1..Len(buffers) |-> buffers[i].len]

\* floor(rate * k / 1000), as the claim writes it
ClaimedOverlap == (rate * crossfade_ms) \div 1000

\* the buffers in order, frame after frame, nothing mixed
RECURSIVE PlainConcatenation(_, _)
PlainConcatenation(bufs, i) ==
    IF i > Len(bufs) THEN <<>>
    ELSE [p \in 1..bufs[i].len |-> {<<i, p>>}] \o PlainConcatenation(bufs, i + 1)

\* C11 as claimed: for n buffers of any lengths the result has exactly
\* sum(len) - (n-1) * floor(rate*k/1000) frames, and with k = 0 it is the
\* plain concatenation.
C11_MergedLengthAnyBuffers ==
    (merged # NoMerged /\ buffers # <<>>)
        => /\ Len(merged.frames)
                = SumSeq(BufferLens) - (Len(buffers) - 1) * ClaimedOverlap
           /\ crossfade_ms = 0 => merged.frames = PlainConcatenation(buffers, 1)

\* C11 as amended: the length formula holds for n >= 1 buffers that each
\* have at least floor(rate*k/1000) frames; in every case the result has at
\* least that many frames and at most sum(len); no buffers give an empty
\* array; with k = 0 the result is the plain concatenation.
C11_MergedLength ==
    merged # NoMerged
        => /\ (Len(buffers) >= 1 /\ \A i \in 1..Len(buffers) : buffers[i].len >= ClaimedOverlap)
                => Len(merged.frames)
                      = SumSeq(BufferLens) - (Len(buffers) - 1) * ClaimedOverlap
           /\ Len(buffers) >= 1
                => /\ Len(merged.frames) >= SumSeq(BufferLens) - (Len(buffers) - 1) * ClaimedOverlap
                   /\ Len(merged.frames) <= SumSeq(BufferLens)
           /\ buffers = <<>> => merged.frames = <<>>
           /\ crossfade_ms = 0 => merged.frames = PlainConcatenation(buffers, 1)

\* C11 witness: three buffers of two frames each, crossfaded over one
\* frame at each of the two seams, merged into four frames.
C11_Witness ==
    /\ merged # NoMerged
    /\ Len(buffers) = 3
    /\ \A i \in 1..3 : buffers[i].len = 2
    /\ ClaimedOverlap = 1
    /\ Len(merged.frames) = 4

\* the buffers from the second on whose channel count differs from that of
\* the output merged so far; before the first of them the output has the
\* channel count of the first buffer
MixedSeams ==
    {i \in 2..Len(buffers) : buffers[i].channels # buffers[1].channels}

\* C24: merge_audio_chunks raises on no list of buffers; when some
\* buffer's channel count differs, the output merged up to that buffer and
\* up to every later one has exactly one column, the first column of every
\* input; when none differs the channel count is kept.
C24_MixedChannelsToFirstChannel ==
    (merged # NoMerged /\ buffers # <<>>)
        => /\ ~merged.raised
           /\ \A n \in 1..Len(buffers) :
                 LET upto == merge_audio_chunks(SubSeq(buffers, 1, n), rate, crossfade_ms)
                 IN /\ ~upto.raised
                    /\ IF \E i \in MixedSeams : i <= n
                       THEN upto.channels = 1 /\ upto.cols = <<1>>
                       ELSE upto.channels = buffers[1].channels

\* C24 witness: a stereo buffer, then a three-channel buffer (the first
\* seam that differs), then a stereo buffer again: the result is one
\* column, two-dimensional, holding frames of all three buffers.
C24_Witness ==
    /\ merged # NoMerged
    /\ Len(buffers) = 3
    /\ buffers[1].channels = 2 /\ buffers[2].channels = 3 /\ buffers[3].channels = 2
    /\ \A i \in 1..3 : buffers[i].len = 1
    /\ crossfade_ms = 0
    /\ merged.channels = 1 /\ merged.ndim = 2 /\ merged.cols = <<1>>
    /\ Len(merged.frames) = 3

----------------------------------------------------------------------------
(* POST /api/audiobook/generate (backend/main.py, audiobook_generate) *)

\* The request bodies: AudiobookRequest without title, voice and speed,
\* which the handler only passes on.
GenerateTexts ==
    {<<>>, <<" ">>, <<"a">>, <<"a", ".", " ", "B">>}

RequestOutputFormats == {"wav", "mp3", "m4b", "WAV", "ogg"}
RequestSubtitleFormats == {"none", "srt", "vtt", "SRT", "ass"}

AudiobookRequests ==
    [text : GenerateTexts,
     output_format : RequestOutputFormats,
     subtitle_format : RequestSubtitleFormats,
     smart_chunking : BOOLEAN,
     max_chars_per_chunk : {0 - 1, 0, 2, default_max_chars},
     crossfade_ms : {0 - 1, 0, 40}]

NoResponse == [code |-> 0]

\* str.lower() on the format names above
Lower(f) ==
    CASE f = "WAV" -> "wav"
      [] f = "SRT" -> "srt"
      [] OTHER -> f

\* the keyword arguments of the call at main.py lines 1068-1078
generate_call_kwargs ==
    {"text", "title", "voice", "speed", "output_format", "subtitle_format",
     "smart_chunking", "max_chars_per_chunk", "crossfade_ms"}

\* the parameters of create_audiobook_job (audiobook.py lines 492-500)
create_audiobook_job_params ==
    {"text", "title", "voice", "speed", "output_format", "subtitle_format",
     "chapters"}

\* the validation with the crossfade_ms test left out
validation_error_no_crossfade(req) ==
    IF Strip(req.text) = <<>> THEN "Text cannot be empty"
    ELSE IF Lower(req.output_format) \notin {"wav", "mp3", "m4b"}
    THEN "Invalid output_format"
    ELSE IF Lower(req.subtitle_format) \notin {"none", "srt", "vtt"}
    THEN "Invalid subtitle_format"
    ELSE IF req.max_chars_per_chunk <= 0 THEN "max_chars_per_chunk must be > 0"
    ELSE "none"

\* main.py lines 1043-1066: the detail of the HTTPException(400) raised, or
\* "none" when the request passes
validation_error(req) ==
    IF Strip(req.text) = <<>> THEN "Text cannot be empty"
    ELSE IF Lower(req.output_format) \notin {"wav", "mp3", "m4b"}
    THEN "Invalid output_format"
    ELSE IF Lower(req.subtitle_format) \notin {"none", "srt", "vtt"}
    THEN "Invalid subtitle_format"
    ELSE IF req.max_chars_per_chunk <= 0 THEN "max_chars_per_chunk must be > 0"
    ELSE IF req.crossfade_ms < 0 THEN "crossfade_ms must be >= 0"
    ELSE "none"

\* a chunk of characters as the worker's sequence of word lengths
WordLens(chunk) ==
    LET words == SplitWords(chunk) IN [k \in 1..Len(words) |-> Len(words[k])]

\* audiobook_generate (main.py lines 1021-1087).  A call that names a
\* keyword the callee does not declare raises TypeError before the
\* callee's body runs, and the framework answers 500; otherwise
\* create_audiobook_job (audiobook.py lines 516-543) chunks the text with
\* its default max_chars, registers the job and starts the worker.
audiobook_generate ==
    /\ response = NoResponse
    /\ LET err == validation_error(request)
       IN IF err # "none"
          THEN /\ response' = [code |-> 400, detail |-> err]
               /\ UNCHANGED <<jobs, job, pc, loc>>
          ELSE IF ~(generate_call_kwargs \subseteq create_audiobook_job_params)
          THEN /\ response' = [code |-> 500, detail |-> "Internal Server Error"]
               /\ UNCHANGED <<jobs, job, pc, loc>>
          ELSE LET chunks == chunk_text_for_kokoro(request.text, default_max_chars)
                   total_chars == SumSeq([k \in 1..Len(chunks) |-> Len(chunks[k])])
               IN /\ job' = [NoJob EXCEPT
                               !.status = STARTED,
                               !.total_chunks = Len(chunks),
                               !.total_chars = total_chars,
                               !.output_format = Lower(request.output_format),
                               !.subtitle_format = Lower(request.subtitle_format)]
                  /\ loc' = [NoLocals EXCEPT
                               !.chunks = [k \in 1..Len(chunks) |-> WordLens(chunks[k])]]
                  /\ jobs' = jobs \cup {1}
                  /\ pc' = "get_engine"
                  /\ response' = [code |-> 200, job_id |-> 1, status |-> STARTED,
                                  total_chunks |-> Len(chunks),
                                  total_chars |-> total_chars]
    /\ UNCHANGED <<files, now, hist, chunkVars, mergeVars, records, engine, request, api_pc>>

InitGenerate ==
    /\ jobs = {}
    /\ job = NoJob
    /\ pc = "idle"
    /\ loc = NoLocals
    /\ files = {}
    /\ now = 1
    /\ hist = NoHist
    /\ text = <<>>
    /\ max_chars = 1
    /\ result = NoResult
    /\ buffers = <<>>
    /\ rate = 1000
    /\ crossfade_ms = 0
    /\ merged = NoMerged
    /\ request \in AudiobookRequests
    /\ response = NoResponse
    /\ api_pc = "idle"
    /\ records = NoRecords
    /\ engine = NoEngine

NextGenerate == audiobook_generate

SpecGenerate == InitGenerate /\ [][NextGenerate]_vars

----------------------------------------------------------------------------
(* Claims about POST /api/audiobook/generate *)

WorkerStarted == pc # "idle"

\* C14 as claimed: blank text, an output_format outside {wav, mp3, m4b}, a
\* subtitle_format outside {none, srt, vtt}, max_chars_per_chunk <= 0 or
\* crossfade_ms < 0 is answered 400, with no job registered and no worker
\* started.
C14_InvalidRequestRejected ==
    (/\ response # NoResponse
     /\ \/ Strip(request.text) = <<>>
        \/ request.output_format \notin {"wav", "mp3", "m4b"}
        \/ request.subtitle_format \notin {"none", "srt", "vtt"}
        \/ request.max_chars_per_chunk <= 0
        \/ request.crossfade_ms < 0)
        => /\ response.code = 400
           /\ jobs = {}
           /\ ~WorkerStarted

\* C14 as amended: the same, the two format names being compared in lower
\* case ("WAV" and "SRT" pass the validation).
C14_InvalidRequestRejectedLowercased ==
    (/\ response # NoResponse
     /\ \/ Strip(request.text) = <<>>
        \/ Lower(request.output_format) \notin {"wav", "mp3", "m4b"}
        \/ Lower(request.subtitle_format) \notin {"none", "srt", "vtt"}
        \/ request.max_chars_per_chunk <= 0
        \/ request.crossfade_ms < 0)
        => /\ response.code = 400
           /\ jobs = {}
           /\ ~WorkerStarted

\* C14 witness: a request whose only fault is a negative crossfade_ms was
\* answered 400.
C14_Witness ==
    /\ response # NoResponse
    /\ response.code = 400
    /\ Strip(request.text) # <<>>
    /\ request.output_format = "mp3"
    /\ request.subtitle_format = "vtt"
    /\ request.max_chars_per_chunk > 0
    /\ request.crossfade_ms < 0
    /\ jobs = {}

\* C16: every request that passes the validation is answered 200 with the
\* id of exactly one newly registered job, its status, total_chunks equal
\* to the number of chunks and total_chars to the sum of their lengths,
\* the chunks being built with the request's max_chars_per_chunk.
C16_ValidRequestCreatesJob ==
    (response # NoResponse /\ validation_error(request) = "none")
        => /\ response.code = 200
           /\ jobs = {response.job_id}
           /\ WorkerStarted
           /\ response.status = STARTED
           /\ response.total_chunks = Len(loc.chunks)
           /\ response.total_chars = CharsOfChunks(Len(loc.chunks))
           /\ \A k \in 1..Len(loc.chunks) :
                 \/ ChunkChars(loc.chunks[k]) <= request.max_chars_per_chunk
                 \/ Len(loc.chunks[k]) = 1

----------------------------------------------------------------------------
(* POST /api/audiobook/cancel/{job_id}, statement by statement,           *)
(* interleaved with the worker of the job and with cleanup_old_jobs       *)

\* the AudiobookJob create_audiobook_job builds for a request (lines
\* 516-530)
created_job(req) ==
    [NoJob EXCEPT
       !.status = STARTED,
       !.total_chunks = Len(req.chunks),
       !.total_chars = SumSeq([k \in 1..Len(req.chunks) |-> ChunkChars(req.chunks[k])]),
       !.output_format = req.output_format,
       !.subtitle_format = req.subtitle_format,
       !.chapters = req.chapters]

\* The jobs alive when the cancel request arrives
CancelRequests ==
    [chunks : {<<ShortChunk>>, <<ShortChunk, LongChunk>>},
     output_format : {"wav"}, subtitle_format : {"none"}, chapters : {<<>>}]

\* job id 1 is the job of this model, 2 is an id never registered
JobIds == {1, 2}

Active == {STARTED, PROCESSING}

\* main.py lines 1232-1234: job = get_job(job_id); 404 when it is None
cancel_endpoint_get_job ==
    /\ api_pc = "idle"
    /\ hist' = [hist EXCEPT
                  !.call_status = IF request.job_id \in jobs
                                  THEN get_job(request.job_id).status
                                  ELSE "unknown"]
    /\ IF request.job_id \in jobs
       THEN /\ api_pc' = "cancel_job"
            /\ UNCHANGED response
       ELSE /\ api_pc' = "returned"
            /\ response' = [code |-> 404, success |-> FALSE]
    /\ UNCHANGED <<jobs, job, pc, loc, files, now, chunkVars, mergeVars, records, engine, request>>

\* audiobook.py line 891: cancel_job looks the job up again; it may have
\* been swept from the registry since the endpoint's lookup
cancel_job_get_job ==
    /\ api_pc = "cancel_job"
    /\ IF request.job_id \in jobs
       THEN /\ api_pc' = "check_status"
            /\ UNCHANGED <<response, hist>>
       ELSE /\ api_pc' = "returned"
            /\ hist' = [hist EXCEPT !.seen_status = "unknown"]
            /\ response' = [code |-> 200, success |-> FALSE]
    /\ UNCHANGED <<jobs, job, pc, loc, files, now, chunkVars, mergeVars, records, engine, request>>

\* the status test accepting every status
cancel_job_check_status_any ==
    /\ api_pc = "check_status"
    /\ hist' = [hist EXCEPT !.seen_status = job.status]
    /\ api_pc' = "request_cancel"
    /\ UNCHANGED <<jobs, job, pc, loc, files, now, chunkVars, mergeVars, records, engine, request, response>>

\* audiobook.py lines 892, 895: the status test on the object found
cancel_job_check_status ==
    /\ api_pc = "check_status"
    /\ hist' = [hist EXCEPT !.seen_status = job.status]
    /\ IF job.status \in Active
       THEN /\ api_pc' = "request_cancel"
            /\ UNCHANGED response
       ELSE /\ api_pc' = "returned"
            /\ response' = [code |-> 200, success |-> FALSE]
    /\ UNCHANGED <<jobs, job, pc, loc, files, now, chunkVars, mergeVars, records, engine, request>>

\* audiobook.py lines 893-894 and 148-149: job.request_cancel(); return True
cancel_job_request_cancel ==
    /\ api_pc = "request_cancel"
    /\ job' = [job EXCEPT !.cancel_requested = TRUE]
    /\ api_pc' = "returned"
    /\ response' = [code |-> 200, success |-> TRUE]
    /\ UNCHANGED <<jobs, pc, loc, files, now, hist, chunkVars, mergeVars, records, engine, request>>

InitCancel ==
    /\ \E req \in CancelRequests :
          /\ job = created_job(req)
          /\ loc = [NoLocals EXCEPT !.chunks = req.chunks]
    /\ jobs = {1}
    /\ pc = "get_engine"
    /\ files = {}
    /\ now = 1
    /\ hist = NoHist
    /\ text = <<>>
    /\ max_chars = 1
    /\ result = NoResult
    /\ buffers = <<>>
    /\ rate = 1000
    /\ crossfade_ms = 0
    /\ merged = NoMerged
    /\ request \in [job_id : JobIds]
    /\ response = NoResponse
    /\ api_pc = "idle"
    /\ records = NoRecords
    /\ engine = NoEngine

NextCancel ==
    \/ Worker
    \/ cancel_endpoint_get_job
    \/ cancel_job_get_job
    \/ cancel_job_check_status
    \/ cancel_job_request_cancel
    \/ \E max_age \in 0..(MaxTime - 1) : cleanup_old_jobs(max_age)
    \/ Tick

SpecCancel == InitCancel /\ [][NextCancel]_vars

----------------------------------------------------------------------------
(* Claims about cancel_job *)

\* C15: cancel_job returns True iff the job is registered and the status
\* it reads is STARTED or PROCESSING; an unknown id is answered 404 by the
\* endpoint; for an unknown id or a job that was already terminal when the
\* request arrived the result is False, and no statement of the request
\* but request_cancel() after a successful test changes the job or the
\* registry, request_cancel() changing the flag alone.
C15_CancelJobResult ==
    /\ [](api_pc = "returned"
            => /\ (response.code = 404) <=> (hist.call_status = "unknown")
               /\ response.code \in {200, 404}
               /\ response.success
                    <=> (response.code = 200 /\ hist.seen_status \in Active)
               /\ hist.call_status \in Terminal \cup {"unknown"}
                    => ~response.success /\ ~job.cancel_requested
               /\ job.cancel_requested <=> response.success)
    /\ [][api_pc' # api_pc
            => /\ jobs' = jobs
               /\ IF response'.code = 200 /\ response'.success
                  THEN job' = [job EXCEPT !.cancel_requested = TRUE]
                  ELSE job' = job]_vars

\* C15 witness: a cancel request that arrived after the job had completed
\* was answered False and left the flag unset.
C15_Witness ==
    /\ api_pc = "returned"
    /\ hist.call_status = COMPLETED
    /\ response.code = 200
    /\ ~response.success
    /\ ~job.cancel_requested
    /\ job.status = COMPLETED

----------------------------------------------------------------------------
(* The registry with several jobs (audiobook.py, _jobs): of each job only  *)
(* what cleanup_old_jobs and cancel_job read is kept, and of its worker    *)
(* only the statements that write those fields.                            *)

MaxAges == 0..(MaxTime - 1)

\* create_audiobook_job (lines 507-541): a fresh uuid, status STARTED,
\* completed_at None; the job is registered and its thread started.
R_create_audiobook_job(id) ==
    /\ records[id].pc = "idle"
    /\ records' = [records EXCEPT ![id] = [NoRecord EXCEPT !.status = STARTED,
                                                          !.pc = "get_engine"]]
    /\ jobs' = jobs \cup {id}
    /\ UNCHANGED now
    /\ UNCHANGED <<job, pc, loc, files, hist, chunkVars, mergeVars, apiVars, engine>>

\* lines 709-720: the thread dies before the try block, or enters it and
\* sets PROCESSING
R_Begin(id) ==
    /\ records[id].pc = "get_engine"
    /\ \/ records' = [records EXCEPT ![id].pc = "crashed"]
       \/ records' = [records EXCEPT ![id].status = PROCESSING, ![id].pc = "running"]
    /\ UNCHANGED <<job, pc, loc, files, hist, chunkVars, mergeVars, apiVars, engine, jobs, now>>

\* lines 733-735 and 825-826: the flag is seen, status = CANCELLED
R_Cancelled(id) ==
    /\ records[id].pc = "running"
    /\ records[id].cancel_requested
    /\ records' = [records EXCEPT ![id].status = CANCELLED, ![id].pc = "cancel_stamp"]
    /\ UNCHANGED <<job, pc, loc, files, hist, chunkVars, mergeVars, apiVars, engine, jobs, now>>

\* line 861: status = COMPLETED; lines 870 and 874: status = FAILED
R_Ended(id) ==
    /\ records[id].pc = "running"
    /\ \E st \in {COMPLETED, FAILED} :
          records' = [records EXCEPT ![id].status = st, ![id].pc = "finally"]
    /\ UNCHANGED <<job, pc, loc, files, hist, chunkVars, mergeVars, apiVars, engine, jobs, now>>

\* lines 736, 827 and 880: job.completed_at = time.time(), each after the
\* terminal status was assigned
R_Stamp(id) ==
    /\ records[id].pc \in {"cancel_stamp", "finally"}
    /\ records' = [records EXCEPT ![id].completed_at = now, ![id].pc = "done"]
    /\ UNCHANGED <<job, pc, loc, files, hist, chunkVars, mergeVars, apiVars, engine, jobs, now>>

\* cancel_job (lines 889-895)
R_cancel_job(id) ==
    /\ id \in jobs
    /\ records[id].status \in {STARTED, PROCESSING}
    /\ records' = [records EXCEPT ![id].cancel_requested = TRUE]
    /\ UNCHANGED <<job, pc, loc, files, hist, chunkVars, mergeVars, apiVars, engine, jobs, now>>

\* the sweep without the test that completed_at is set
R_cleanup_old_jobs_any(max_age_seconds) ==
    /\ jobs' = {id \in jobs : ~(now - records[id].completed_at > max_age_seconds)}
    /\ UNCHANGED <<job, pc, loc, files, hist, chunkVars, mergeVars, apiVars, engine, records, now>>

\* cleanup_old_jobs (lines 898-907)
R_cleanup_old_jobs(max_age_seconds) ==
    /\ jobs' = {id \in jobs :
                  ~(/\ records[id].completed_at # 0
                    /\ now - records[id].completed_at > max_age_seconds)}
    /\ UNCHANGED <<job, pc, loc, files, hist, chunkVars, mergeVars, apiVars, engine, records, now>>

\* time.time() advances
R_Tick ==
    /\ now < MaxTime
    /\ now' = now + 1
    /\ UNCHANGED <<job, pc, loc, files, hist, chunkVars, mergeVars, apiVars, engine, jobs, records>>

InitRegistry ==
    /\ jobs = {}
    /\ job = NoJob
    /\ pc = "idle"
    /\ loc = NoLocals
    /\ files = {}
    /\ now = 1
    /\ hist = NoHist
    /\ text = <<>>
    /\ max_chars = 1
    /\ result = NoResult
    /\ buffers = <<>>
    /\ rate = 1000
    /\ crossfade_ms = 0
    /\ merged = NoMerged
    /\ request = [text |-> <<>>, output_format |-> "wav", subtitle_format |-> "none",
                  smart_chunking |-> TRUE, max_chars_per_chunk |-> 1500,
                  crossfade_ms |-> 40]
    /\ response = NoResponse
    /\ api_pc = "idle"
    /\ records = NoRecords
    /\ engine = NoEngine

NextRegistry ==
    \/ \E id \in PoolIds :
          \/ R_create_audiobook_job(id)
          \/ R_Begin(id)
          \/ R_Cancelled(id)
          \/ R_Ended(id)
          \/ R_Stamp(id)
          \/ R_cancel_job(id)
    \/ \E max_age \in MaxAges : R_cleanup_old_jobs(max_age)
    \/ R_Tick

SpecRegistry == InitRegistry /\ [][NextRegistry]_vars

----------------------------------------------------------------------------
(* Claims about the registry *)

\* the registered jobs a sweep with max_age is to remove
Expired(max_age) ==
    {id \in jobs : records[id].completed_at # 0
                   /\ now - records[id].completed_at > max_age}

\* C25: a sweep removes exactly the registered jobs whose completed_at is
\* set and more than max_age old; the registry changes only by one job
\* being created or by such a removal; completed_at is set only with a
\* terminal status; a job in STARTED or PROCESSING is in the registry.
C25_SweepRemovesExpiredOnly ==
    /\ [][/\ \A m \in MaxAges :
                (R_cleanup_old_jobs(m) => (jobs' = jobs \ Expired(m)))
          /\ ((jobs' # jobs)
                => (\/ \E id \in PoolIds \ jobs :
                        /\ jobs' = jobs \cup {id}
                        /\ records[id].status = "none"
                        /\ records'[id].status = STARTED
                    \/ \E m \in MaxAges :
                        /\ Expired(m) # {}
                        /\ jobs' = jobs \ Expired(m)))]_vars
    /\ [](\A id \in PoolIds :
            /\ ((records[id].completed_at # 0) => (records[id].status \in Terminal))
            /\ ((records[id].status \in {STARTED, PROCESSING}) => (id \in jobs)))

\* C25 witness: of two finished jobs a sweep removed the older one and
\* kept the one stamped later, and earlier sweeps left both alone while
\* they ran.
C25_Witness ==
    /\ jobs = {2}
    /\ records[1].status \in Terminal /\ records[1].completed_at = 1
    /\ records[2].status \in Terminal /\ records[2].completed_at = 2
    /\ now = 2

----------------------------------------------------------------------------
(* The engine singleton (kokoro_engine.py) under several worker threads.   *)
(* Neither get_kokoro_engine nor load_model takes a lock, and both         *)
(* constructors block (KokoroEngine.__init__ makes a directory, KPipeline  *)
(* loads a model), so threads interleave between a test and the assignment *)
(* that follows it.                                                        *)

\* audiobook.py lines 536-541: thread.start(); the thread is about to call
\* get_kokoro_engine() (line 709)
E_Start(w) ==
    /\ engine.pc[w] = "idle"
    /\ engine' = [engine EXCEPT !.pc[w] = "test_engine"]
    /\ UNCHANGED <<jobVars, chunkVars, mergeVars, apiVars, records>>

\* kokoro_engine.py line 83: if _engine is None
E_TestEngine(w) ==
    /\ engine.pc[w] = "test_engine"
    /\ engine' = [engine EXCEPT
                     !.pc[w] = IF engine.instance = 0 THEN "construct" ELSE "return"]
    /\ UNCHANGED <<jobVars, chunkVars, mergeVars, apiVars, records>>

\* line 84: _engine = KokoroEngine(): a new object is constructed and
\* bound to the global
E_Construct(w) ==
    /\ engine.pc[w] = "construct"
    /\ engine' = [engine EXCEPT
                     !.constructed = engine.constructed + 1,
                     !.instance = engine.constructed + 1,
                     !.pc[w] = "return"]
    /\ UNCHANGED <<jobVars, chunkVars, mergeVars, apiVars, records>>

\* line 85: return _engine, bound to the worker's `engine`
E_Return(w) ==
    /\ engine.pc[w] = "return"
    /\ engine' = [engine EXCEPT !.ref[w] = engine.instance, !.pc[w] = "test_pipeline"]
    /\ UNCHANGED <<jobVars, chunkVars, mergeVars, apiVars, records>>

\* audiobook.py line 744, kokoro_engine.py line 31: if self.pipeline is None
E_TestPipeline(w) ==
    /\ engine.pc[w] = "test_pipeline"
    /\ engine' = [engine EXCEPT
                     !.pc[w] = IF engine.pipeline[engine.ref[w]] = 0
                               THEN "load" ELSE "synthesize"]
    /\ UNCHANGED <<jobVars, chunkVars, mergeVars, apiVars, records>>

\* kokoro_engine.py lines 32-36: ImportError when kokoro is missing, else
\* self.pipeline = KPipeline(lang_code='b')
E_Load(w) ==
    /\ engine.pc[w] = "load"
    /\ \/ engine' = [engine EXCEPT !.pc[w] = "done"]
       \/ engine' = [engine EXCEPT
                        !.loaded = engine.loaded + 1,
                        !.pipeline[engine.ref[w]] = engine.loaded + 1,
                        !.pc[w] = "synthesize"]
    /\ UNCHANGED <<jobVars, chunkVars, mergeVars, apiVars, records>>

\* audiobook.py lines 745-818: the chunk is synthesized; then the next
\* chunk calls load_model again, or the loop ends
E_Synthesize(w) ==
    /\ engine.pc[w] = "synthesize"
    /\ \E next \in {"test_pipeline", "done"} :
          engine' = [engine EXCEPT !.pc[w] = next]
    /\ UNCHANGED <<jobVars, chunkVars, mergeVars, apiVars, records>>

InitEngine ==
    /\ jobs = {}
    /\ job = NoJob
    /\ pc = "idle"
    /\ loc = NoLocals
    /\ files = {}
    /\ now = 1
    /\ hist = NoHist
    /\ text = <<>>
    /\ max_chars = 1
    /\ result = NoResult
    /\ buffers = <<>>
    /\ rate = 1000
    /\ crossfade_ms = 0
    /\ merged = NoMerged
    /\ request = [text |-> <<>>, output_format |-> "wav", subtitle_format |-> "none",
                  smart_chunking |-> TRUE, max_chars_per_chunk |-> 1500,
                  crossfade_ms |-> 40]
    /\ response = NoResponse
    /\ api_pc = "idle"
    /\ records = NoRecords
    /\ engine = NoEngine

NextEngine ==
    \E w \in Workers :
        \/ E_Start(w)
        \/ E_TestEngine(w)
        \/ E_Construct(w)
        \/ E_Return(w)
        \/ E_TestPipeline(w)
        \/ E_Load(w)
        \/ E_Synthesize(w)

SpecEngine == InitEngine /\ [][NextEngine]_vars

----------------------------------------------------------------------------
(* Claims about the engine singleton *)

\* C29: whatever the interleaving of the worker threads, at most one
\* KokoroEngine is constructed, every worker holds that one, and at most
\* one pipeline is loaded.
C29_SingleEngineSingleLoad ==
    /\ engine.constructed <= 1
    /\ engine.loaded <= 1
    /\ \A w \in Workers : engine.ref[w] \in {0, 1}

====
